---- MODULE Spec2Model ----
(***************************************************************************)
(* A model of naive_tex_to_lean: the file-processing pipeline of           *)
(* process_tex_file.py, the preamble scanner of process_preamble.py, the   *)
(* static tables of translation_maps.py and the translation engine         *)
(* (ast_to_lean.latex_to_lean_symbols).                                    *)
(*                                                                         *)
(* A Python str is a sequence of one-character strings, so that every      *)
(* per-character decision of the program is a decision of the model.  A    *)
(* character outside ASCII is written by its code point: "U+00D7" is the   *)
(* one character MULTIPLICATION SIGN.                                      *)
(***************************************************************************)
EXTENDS Integers, Sequences, FiniteSets, TLC

VARIABLES
    pc,                 \* where main() stands
    tex_source,         \* the input file: its text (for the regex scans) and its tree (for the parser)
    nodelist,           \* initial_nodelist / substituted_full_nodelist
    body_nodelist,      \* the document environment's body
    combined_env_map,   \* the environment map handed to the translator
    translated,         \* latex_to_lean_symbols' result
    output_file,        \* the output file's content
    static_tables,      \* the dictionaries of translation_maps.py, as the process holds them
    parser_invoked,     \* whether LatexWalker was run on the text
    custom_newtheorem_map, \* what the preamble scan returned; None before it and when it raised
    other_run           \* the variables of main() in a second run of the same process, if any

vars == <<pc, tex_source, nodelist, body_nodelist, combined_env_map, translated, output_file,
          static_tables, parser_invoked, custom_newtheorem_map, other_run>>

\* An Optional value: None, or Some(v); also a file, not written or holding v.
None == <<>>
Some(v) == <<v>>

(***************************************************************************)
(* The bounds of the model.                                                *)
(***************************************************************************)
\* The longest text run, counted in pieces (an escape sequence or a character).
MaxPieces == 2
\* The longest sub/superscript argument, in characters.
MaxArgLen == 2
\* The longest fraction side, in nodes.
MaxSideLen == 3
\* The most \newtheorem declarations in a preamble.
MaxDecls == 2
\* The longest sequence of top-level nodes of a mixed body.
MaxTopNodes == 2
MaxItems == 3

(***************************************************************************)
(* Strings.                                                                *)
(***************************************************************************)
\* The characters of the names the model emits (list(s) for a str s).
Chars ==
    [ theorem     |-> <<"t","h","e","o","r","e","m">>,
      lemma       |-> <<"l","e","m","m","a">>,
      corollary   |-> <<"c","o","r","o","l","l","a","r","y">>,
      def         |-> <<"d","e","f">>,
      example     |-> <<"e","x","a","m","p","l","e">>,
      remark      |-> <<"r","e","m","a","r","k">>,
      Prop        |-> <<"P","r","o","p">>,
      Proposition |-> <<"P","r","o","p","o","s","i","t","i","o","n">>,
      Axiom       |-> <<"A","x","i","o","m">>,
      Spec        |-> <<"S","p","e","c">>,
      Z           |-> <<"Z">>,
      item        |-> <<"i","t","e","m">>,
      label       |-> <<"l","a","b","e","l">>,
      ln          |-> <<"l","n">> ]
    @@ ("Printed Name" :> <<"P","r","i","n","t","e","d"," ","N","a","m","e">>)

RECURSIVE Concat(_)
\* "".join(seqs)
Concat(seqs) == IF seqs = <<>> THEN <<>> ELSE Head(seqs) \o Concat(Tail(seqs))

\* sub in s
Contains(s, sub) ==
    \E i \in 0..(Len(s) - Len(sub)) : SubSeq(s, i + 1, i + Len(sub)) = sub

(***************************************************************************)
(* translation_maps.py                                                     *)
(***************************************************************************)
\* The entries of SYMBOL_MAP the model's documents use.
SymbolEntries ==
    [ alpha |-> <<"U+03B1">>, beta |-> <<"U+03B2">>,
      le    |-> <<"U+2264">>,
      ln    |-> Chars["ln"],
      pm    |-> <<"U+00B1">>, times |-> <<"U+00D7">>, div |-> <<"U+00F7">>,
      cdot  |-> <<"U+00B7">>, ast |-> <<"*">>,
      label |-> <<>> ]

\* The table with \times written as the letter x.
SYMBOL_MAP_TimesAsLetter == [SymbolEntries EXCEPT !["times"] = <<"x">>]

\* The table without the entry that keeps labels out of the text.
SYMBOL_MAP_NoLabel == [n \in DOMAIN SymbolEntries \ {"label"} |-> SymbolEntries[n]]

SYMBOL_MAP == SymbolEntries

BLACKBOARD_BOLD_MAP ==
    [ A |-> "U+1D538", B |-> "U+1D539", C |-> "U+2102", D |-> "U+1D53B", E |-> "U+1D53C",
      F |-> "U+1D53D", G |-> "U+1D53E", H |-> "U+210D", I |-> "U+1D540", J |-> "U+1D541",
      K |-> "U+1D542", L |-> "U+1D543", M |-> "U+1D544", N |-> "U+2115", O |-> "U+1D546",
      P |-> "U+2119", Q |-> "U+211A", R |-> "U+211D", S |-> "U+1D54A", T |-> "U+1D54B",
      U |-> "U+1D54C", V |-> "U+1D54D", W |-> "U+1D54E", X |-> "U+1D54F", Y |-> "U+1D550",
      Z |-> "U+2124" ]

SCRIPT_MAP ==
    [ A |-> "U+1D49C", B |-> "U+212C", C |-> "U+1D49E", D |-> "U+1D49F", E |-> "U+2130",
      F |-> "U+2131", G |-> "U+1D4A2", H |-> "U+210B", I |-> "U+2110", J |-> "U+1D4A5",
      K |-> "U+1D4A6", L |-> "U+2112", M |-> "U+2133", N |-> "U+1D4A9", O |-> "U+1D4AA",
      P |-> "U+1D4AB", Q |-> "U+1D4AC", R |-> "U+211B", S |-> "U+1D4AE", T |-> "U+1D4AF",
      U |-> "U+1D4B0", V |-> "U+1D4B1", W |-> "U+1D4B2", X |-> "U+1D4B3", Y |-> "U+1D4B4",
      Z |-> "U+1D4B5" ]

SubscriptEntries ==
    ( "0" :> "U+2080" @@ "1" :> "U+2081" @@ "2" :> "U+2082" @@ "3" :> "U+2083" @@ "4" :> "U+2084" @@
      "5" :> "U+2085" @@ "6" :> "U+2086" @@ "7" :> "U+2087" @@ "8" :> "U+2088" @@ "9" :> "U+2089" @@
      "a" :> "U+2090" @@ "e" :> "U+2091" @@ "h" :> "U+2095" @@ "i" :> "U+1D62" @@ "j" :> "U+2C7C" @@
      "k" :> "U+2096" @@ "l" :> "U+2097" @@ "m" :> "U+2098" @@ "n" :> "U+2099" @@ "o" :> "U+2092" @@
      "p" :> "U+209A" @@ "r" :> "U+1D63" @@ "s" :> "U+209B" @@ "t" :> "U+209C" @@ "u" :> "U+1D64" @@
      "v" :> "U+1D65" @@ "x" :> "U+2093" @@
      "+" :> "U+208A" @@ "-" :> "U+208B" @@ "U+2212" :> "U+208B" @@ "=" :> "U+208C" @@ "(" :> "U+208D" @@
      ")" :> "U+208E" @@
      "U+03B2" :> "U+1D66" @@ "U+03B3" :> "U+1D67" @@ "U+03C1" :> "U+1D68" @@ "U+03C6" :> "U+1D69" @@ "U+03C7" :> "U+1D6A" )

\* The table without the glyph of j.
SUBSCRIPT_MAP_NoJ == [c \in DOMAIN SubscriptEntries \ {"j"} |-> SubscriptEntries[c]]

SUBSCRIPT_MAP == SubscriptEntries

DEFAULT_LATEX_ENV_TO_LEAN_KEYWORD ==
    [ theorem     |-> "theorem",
      proposition |-> "theorem",
      lemma       |-> "lemma",
      corollary   |-> "corollary",
      definition  |-> "def",
      example     |-> "example",
      remark      |-> "remark" ]

(***************************************************************************)
(* The parser's nodes (pylatexenc 2.10), as latex_to_ast.py reads them.    *)
(***************************************************************************)
Node(type, name, chars, argnlist, nodes) ==
    [type |-> type, name |-> name, chars |-> chars, argnlist |-> argnlist, nodelist |-> nodes]

\* An argument slot that is not filled (None in nodeargd.argnlist).
NoneNode == Node("none", "", <<>>, <<>>, <<>>)
LatexCharsNode(chars) == Node("chars", "", chars, <<>>, <<>>)
LatexMacroNode(macroname, argnlist) == Node("macro", macroname, <<>>, argnlist, <<>>)
LatexEnvironmentNode(environmentname, argnlist, nodes) ==
    Node("environment", environmentname, <<>>, argnlist, nodes)
LatexGroupNode(nodes) == Node("group", "", <<>>, <<>>, nodes)
LatexMathNode(displaytype, nodes) == Node("math", displaytype, <<>>, <<>>, nodes)
LatexCommentNode(comment) == Node("comment", "", comment, <<>>, <<>>)
LatexSpecialsNode(specials_chars, argnlist) == Node("specials", specials_chars, <<>>, argnlist, <<>>)

(***************************************************************************)
(* The translation engine: latex_to_lean_symbols.                          *)
(***************************************************************************)
\* The Failure result of a run: one element that is no character.
Failure == <<"Failure">>

\* A concatenation that skips a node that failed and keeps the rest.
CatSkipsFailure(a, b) ==
    IF a = Failure THEN (IF b = Failure THEN <<>> ELSE b)
    ELSE IF b = Failure THEN a ELSE a \o b

\* Concatenation of two renderings; a Failure aborts the whole run.
Cat(a, b) == IF a = Failure \/ b = Failure THEN Failure ELSE a \o b

\* The escape table without the ampersand.
ESCAPED_CHARS_NoAmpersand == {"$", "%", "#", "{", "}"}

\* The fixed escape table of text runs: \$ \% \# \{ \} \& .
ESCAPED_CHARS == {"$", "%", "#", "{", "}", "&"}

RECURSIVE Unescape(_)
\* A text run with each escape sequence replaced by its literal character.
Unescape(chars) ==
    IF chars = <<>> THEN <<>>
    ELSE IF Len(chars) >= 2 /\ chars[1] = "\\" /\ chars[2] \in ESCAPED_CHARS
         THEN <<chars[2]>> \o Unescape(SubSeq(chars, 3, Len(chars)))
         ELSE <<chars[1]>> \o Unescape(Tail(chars))

\* The symbols that make a fraction side non-atomic: + - U+00D7 U+00F7 and the slash.
OPERATOR_CHARS == {"+", "-", "U+00D7", "U+00F7", "/"}

\* The textual atomicity check of a translated fraction side.
IsAtomic(text) == \A i \in 1..Len(text) : text[i] \notin OPERATOR_CHARS

\* RenderFraction that writes a fraction of atomic sides with the division sign.
RenderFractionDivisionSign(numerator, denominator) ==
    IF numerator = Failure \/ denominator = Failure THEN Failure
    ELSE IF \A i \in 1..Len(numerator \o denominator) :
                (numerator \o denominator)[i] \notin {"+", "-", "U+00D7", "U+00F7", "/"}
         THEN numerator \o <<"U+00F7">> \o denominator
         ELSE <<"(">> \o numerator \o <<")", "/", "(">> \o denominator \o <<")">>

\* \frac{numerator}{denominator}, both sides already translated.
RenderFraction(numerator, denominator) ==
    IF numerator = Failure \/ denominator = Failure THEN Failure
    ELSE IF IsAtomic(numerator) /\ IsAtomic(denominator)
         THEN numerator \o <<"/">> \o denominator
         ELSE <<"(">> \o numerator \o <<")", "/", "(">> \o denominator \o <<")">>

\* \sqrt[index]{radicand}; index is <<>> for the default (square) root.
RenderRoot(index, radicand) ==
    IF index = Failure \/ radicand = Failure THEN Failure
    ELSE index \o <<"U+221A", "(">> \o radicand \o <<")">>

\* The font tables by command name; \mathbf has no table of glyphs.
FONT_MAPS ==
    [ mathbb |-> BLACKBOARD_BOLD_MAP, mathcal |-> SCRIPT_MAP, mathbf |-> <<>> ]

\* The textual marker that wraps a font argument with no precomposed glyph.
FontMarker(macroname) ==
    CASE macroname = "mathbb"  -> <<"b", "b", " ">>
      [] macroname = "mathcal" -> <<"c", "a", "l", " ">>
      [] macroname = "mathbf"  -> <<"b", "f", " ">>

\* A font command applied to its translated argument.
RenderFont(macroname, arg) ==
    IF arg = Failure THEN Failure
    ELSE IF Len(arg) = 1 /\ arg[1] \in DOMAIN FONT_MAPS[macroname]
         THEN <<FONT_MAPS[macroname][arg[1]]>>
         ELSE FontMarker(macroname) \o arg

\* Every character of the translated subscript argument has a subscript glyph.
AllInSubscriptMap(arg) == \A i \in 1..Len(arg) : arg[i] \in DOMAIN SUBSCRIPT_MAP

\* A subscript whose empty argument takes the fallback notation.
RenderSubscriptMarksEmpty(arg) ==
    IF arg = Failure THEN Failure
    ELSE IF arg # <<>> /\ AllInSubscriptMap(arg)
         THEN [i \in 1..Len(arg) |-> SUBSCRIPT_MAP[arg[i]]]
         ELSE <<"_">> \o arg

\* A subscript: all-or-nothing per argument.
RenderSubscript(arg) ==
    IF arg = Failure THEN Failure
    ELSE IF AllInSubscriptMap(arg)
         THEN [i \in 1..Len(arg) |-> SUBSCRIPT_MAP[arg[i]]]
         ELSE <<"_">> \o arg

\* A superscript lowered to compact glyphs the way a subscript is.
RenderSuperscriptCompact(arg) ==
    IF arg = Failure THEN Failure
    ELSE IF AllInSubscriptMap(arg)
         THEN [i \in 1..Len(arg) |-> SUBSCRIPT_MAP[arg[i]]]
         ELSE <<"^">> \o arg

\* A superscript: always literal.
RenderSuperscript(arg) ==
    IF arg = Failure THEN Failure
    ELSE IF arg = <<>> THEN <<>> ELSE <<"^">> \o arg

\* A fallback that drops the command.
UnknownCommandDropped(macroname) == <<>>

\* A fallback that gives the run up.
UnknownCommandFails(macroname) == Failure

\* The fallback of a command that is in no table: the command name itself.
UnknownCommandFallback(macroname) == Chars[macroname]

\* Whether argument slot i of a node is filled.
HasArg(node, i) == i <= Len(node.argnlist) /\ node.argnlist[i].type # "none"

\* The keyword framing of an environment: keyword, label identifier, body.
FrameEnvironment(keyword, label, body) ==
    IF body = Failure \/ label = Failure THEN Failure
    ELSE keyword \o (IF label = <<>> THEN <<>> ELSE <<" ">> \o label)
                 \o <<" ", ":", " ">> \o body

RECURSIVE TranslateNode(_, _, _)
RECURSIVE TranslateNodeList(_, _, _)
RECURSIVE FindLabel(_, _)

\* The identifier of the first \label among an environment's body nodes.
FindLabel(nodes, environment_map) ==
    IF nodes = <<>> THEN <<>>
    ELSE IF Head(nodes).type = "macro" /\ Head(nodes).name = "label" /\ HasArg(Head(nodes), 1)
         THEN TranslateNode(Head(nodes).argnlist[1], environment_map, FALSE)
         ELSE FindLabel(Tail(nodes), environment_map)

TranslateMacro(node, environment_map, in_math) ==
    CASE node.name = "frac" ->
            IF HasArg(node, 1) /\ HasArg(node, 2)
            THEN RenderFraction(TranslateNode(node.argnlist[1], environment_map, in_math),
                                TranslateNode(node.argnlist[2], environment_map, in_math))
            ELSE Failure
      [] node.name = "sqrt" ->
            IF HasArg(node, 2)
            THEN RenderRoot(IF HasArg(node, 1)
                            THEN TranslateNode(node.argnlist[1], environment_map, in_math)
                            ELSE <<>>,
                            TranslateNode(node.argnlist[2], environment_map, in_math))
            ELSE Failure
      [] node.name \in DOMAIN FONT_MAPS ->
            IF HasArg(node, 1)
            THEN RenderFont(node.name, TranslateNode(node.argnlist[1], environment_map, in_math))
            ELSE Failure
      [] node.name \in DOMAIN SYMBOL_MAP ->
            SYMBOL_MAP[node.name]
      [] OTHER -> UnknownCommandFallback(node.name)

\* TranslateEnvironment that frames an unknown environment with its own name.
TranslateEnvironmentFramesUnknown(node, environment_map, in_math) ==
    FrameEnvironment(IF node.name \in DOMAIN environment_map
                     THEN Chars[environment_map[node.name]] ELSE <<"e", "n", "v">>,
                     FindLabel(node.nodelist, environment_map),
                     TranslateNodeList(node.nodelist, environment_map, in_math))

TranslateEnvironment(node, environment_map, in_math) ==
    IF node.name \in DOMAIN environment_map
    THEN FrameEnvironment(Chars[environment_map[node.name]],
                          FindLabel(node.nodelist, environment_map),
                          TranslateNodeList(node.nodelist, environment_map, in_math))
    ELSE TranslateNodeList(node.nodelist, environment_map, in_math)

TranslateSpecials(node, environment_map, in_math) ==
    IF ~HasArg(node, 1) THEN <<>>
    ELSE IF node.name = "_"
         THEN RenderSubscript(TranslateNode(node.argnlist[1], environment_map, in_math))
         ELSE IF node.name = "^"
              THEN RenderSuperscript(TranslateNode(node.argnlist[1], environment_map, in_math))
              ELSE Chars[node.name]

TranslateNode(node, environment_map, in_math) ==
    CASE node.type = "chars"       -> Unescape(node.chars)
      [] node.type = "macro"       -> TranslateMacro(node, environment_map, in_math)
      [] node.type = "group"       -> TranslateNodeList(node.nodelist, environment_map, in_math)
      [] node.type = "math"        -> TranslateNodeList(node.nodelist, environment_map, TRUE)
      [] node.type = "environment" -> TranslateEnvironment(node, environment_map, in_math)
      [] node.type = "specials"    -> TranslateSpecials(node, environment_map, in_math)
      [] OTHER                     -> <<>>

\* A translation that puts a blank between the renderings of two nodes.
TranslateNodeListSpaced(nodes, environment_map, in_math) ==
    IF nodes = <<>> THEN <<>>
    ELSE IF Tail(nodes) = <<>> THEN TranslateNode(Head(nodes), environment_map, in_math)
    ELSE Cat(Cat(TranslateNode(Head(nodes), environment_map, in_math), <<" ">>),
             TranslateNodeList(Tail(nodes), environment_map, in_math))

TranslateNodeList(nodes, environment_map, in_math) ==
    IF nodes = <<>> THEN <<>>
    ELSE Cat(TranslateNode(Head(nodes), environment_map, in_math),
             TranslateNodeList(Tail(nodes), environment_map, in_math))

\* translate(nodes, environment_map) -> string | Failure (None to the caller).
latex_to_lean_symbols(environment_map, nodelist_in) ==
    LET out == TranslateNodeList(nodelist_in, environment_map, FALSE)
    IN  IF out = Failure THEN None ELSE Some(out)

(***************************************************************************)
(* process_preamble.py                                                     *)
(*                                                                         *)
(* The source text is a sequence of items: a \newtheorem declaration, a    *)
(* \begin{document} and other text.  A brace argument of a declaration is  *)
(* a sequence of pieces, each a run of whitespace " " or a word.           *)
(***************************************************************************)
NewTheorem(star, env_name, counter, printed) ==
    [kind |-> "newtheorem", star |-> star, env_name |-> env_name,
     counter |-> counter, printed |-> printed]
\* Another command of the preamble with two brace arguments, \newcommand{\R}{\mathbb{R}}.
NewCommand(name, definition) ==
    [kind |-> "newcommand", star |-> FALSE, env_name |-> name,
     counter |-> "", printed |-> definition]
\* A bracketed argument after the printed name, as in \newtheorem{theorem}{Theorem}[section].
TrailingBracket == [kind |-> "bracket", star |-> FALSE, env_name |-> <<>>,
                    counter |-> "[section]", printed |-> <<>>]
BeginDocument == [kind |-> "begin_document", star |-> FALSE, env_name |-> <<>>,
                  counter |-> "", printed |-> <<>>]
EndDocument == [kind |-> "end_document", star |-> FALSE, env_name |-> <<>>,
                counter |-> "", printed |-> <<>>]
\* Any other stretch of the text, by its characters.
Text(chars) == [kind |-> "text", star |-> FALSE, env_name |-> <<>>,
                counter |-> "", printed |-> chars]

RECURSIVE LStrip(_)
LStrip(pieces) ==
    IF pieces # <<>> /\ Head(pieces) = " " THEN LStrip(Tail(pieces)) ELSE pieces

RECURSIVE RStrip(_)
RStrip(pieces) ==
    IF pieces # <<>> /\ pieces[Len(pieces)] = " "
    THEN RStrip(SubSeq(pieces, 1, Len(pieces) - 1)) ELSE pieces

RECURSIVE Join(_)
Join(pieces) == IF pieces = <<>> THEN "" ELSE Head(pieces) \o Join(Tail(pieces))

\* A strip of the left end alone, str.lstrip().
StripLeftOnly(pieces) == Join(LStrip(pieces))

\* str.strip() of a brace argument.
Strip(pieces) == Join(RStrip(LStrip(pieces)))

\* A pattern that has no optional star.
RegexMatchesNoStar(item) ==
    /\ item.kind = "newtheorem"
    /\ ~item.star
    /\ item.env_name # <<>>
    /\ item.printed # <<>>
    /\ item.counter # "[]"

\* A pattern that takes any command with two brace arguments.
RegexMatchesAnyCommand(item) ==
    /\ item.kind \in {"newtheorem", "newcommand"}
    /\ item.env_name # <<>>
    /\ item.printed # <<>>
    /\ item.counter # "[]"

\* Whether _NEWTHEOREM_REGEX matches the declaration: both brace arguments hold
\* at least one character, and a bracket between them holds at least one.
RegexMatches(item) ==
    /\ item.kind = "newtheorem"
    /\ item.env_name # <<>>
    /\ item.printed # <<>>
    /\ item.counter # "[]"

RECURSIVE ScanMatchesFirstWins(_, _)
\* The loop with a name that is already in mappings left as it is.
ScanMatchesFirstWins(preamble, mappings) ==
    IF preamble = <<>> THEN mappings
    ELSE LET match == Head(preamble)
             env_name == Strip(match.env_name)
             printed_name == Strip(match.printed)
         IN  IF RegexMatches(match) /\ env_name # "" /\ printed_name # ""
             THEN ScanMatchesFirstWins(Tail(preamble), mappings @@ (env_name :> printed_name))
             ELSE ScanMatchesFirstWins(Tail(preamble), mappings)

RECURSIVE ScanMatches(_, _)
\* The loop over finditer(preamble), mappings being the dict built so far.
ScanMatches(preamble, mappings) ==
    IF preamble = <<>> THEN mappings
    ELSE LET match == Head(preamble)
             env_name == Strip(match.env_name)
             printed_name == Strip(match.printed)
         IN  IF RegexMatches(match) /\ env_name # "" /\ printed_name # ""
             THEN ScanMatches(Tail(preamble), (env_name :> printed_name) @@ mappings)
             ELSE ScanMatches(Tail(preamble), mappings)

extract_newtheorem_mappings(preamble) ==
    IF preamble = <<>> THEN <<>> ELSE ScanMatches(preamble, <<>>)

(***************************************************************************)
(* latex_to_ast.py and process_tex_file.py                                 *)
(***************************************************************************)
\* The source: its text, and what the parser makes of it.
TexSource(text, parse, ast) == [text |-> text, parse |-> parse, ast |-> ast]

\* parse_latex_to_ast_v210 with the empty string reported as a failure.
parse_latex_to_ast_EmptyIsNone(latex_string) ==
    IF latex_string.text = <<>> THEN None
    ELSE IF latex_string.parse \in {"error", "exception"} THEN None
    ELSE Some(latex_string.ast)

\* The parser's outcome on the text is "ok", "error" (LatexWalkerParseError) or
\* "exception" (any other exception).
parse_latex_to_ast_v210(latex_string) ==
    IF latex_string.text = <<>> THEN Some(<<>>)
    ELSE IF latex_string.parse \in {"error", "exception"} THEN None
    ELSE Some(latex_string.ast)

\* Whether the call reaches LatexWalker: not for the empty string.
InvokesLatexWalker(latex_string) == latex_string.text # <<>>

\* The letters of the two patterns in upper case, and their lower case.
ASCII_LOWER ==
    "B" :> "b" @@ "C" :> "c" @@ "D" :> "d" @@ "E" :> "e" @@ "G" :> "g" @@ "I" :> "i"
    @@ "M" :> "m" @@ "N" :> "n" @@ "O" :> "o" @@ "T" :> "t" @@ "U" :> "u"
Lower(chars) ==
    [i \in DOMAIN chars |->
        IF chars[i] \in DOMAIN ASCII_LOWER THEN ASCII_LOWER[chars[i]] ELSE chars[i]]

\* r"\\begin\{document\}" and r"\\end\{document\}", by their characters.
BEGIN_DOCUMENT == <<"\\", "b", "e", "g", "i", "n", "{", "d", "o", "c", "u", "m", "e", "n", "t", "}">>
END_DOCUMENT == <<"\\", "e", "n", "d", "{", "d", "o", "c", "u", "m", "e", "n", "t", "}">>

\* A search that tells upper case from lower case.
IsBeginDocumentCaseSensitive(item) ==
    \/ item.kind = "begin_document"
    \/ item.kind = "text" /\ item.printed = BEGIN_DOCUMENT

\* Whether re.search(r"\\begin\{document\}", ..., re.IGNORECASE) matches at the item.
IsBeginDocument(item) ==
    \/ item.kind = "begin_document"
    \/ item.kind = "text" /\ Lower(item.printed) = BEGIN_DOCUMENT

\* Whether re.search(r"\\end\{document\}", ..., re.IGNORECASE) matches at the item.
IsEndDocument(item) ==
    \/ item.kind = "end_document"
    \/ item.kind = "text" /\ Lower(item.printed) = END_DOCUMENT

RECURSIVE PreambleOf(_)
\* tex[: begin_match.start()], the caller having found a match.
PreambleOf(text) ==
    IF text = <<>> \/ IsBeginDocument(Head(text)) THEN <<>>
    ELSE <<Head(text)>> \o PreambleOf(Tail(text))

RECURSIVE RestOf(_)
\* tex[begin_match.end() :]
RestOf(text) ==
    IF text = <<>> THEN <<>>
    ELSE IF IsBeginDocument(Head(text)) THEN Tail(text)
    ELSE RestOf(Tail(text))

RECURSIVE BodyOf(_)
\* rest[: end_match.start()], or rest when nothing ends the document.
BodyOf(rest) ==
    IF rest = <<>> \/ IsEndDocument(Head(rest)) THEN <<>>
    ELSE <<Head(rest)>> \o BodyOf(Tail(rest))

\* The pair (preamble, body).
_split_preamble_and_body(tex) ==
    IF \E i \in DOMAIN tex : IsBeginDocument(tex[i])
    THEN <<PreambleOf(tex), BodyOf(RestOf(tex))>>
    ELSE <<<<>>, tex>>

\* A nodelist attribute that is no list (None on a node built by hand).
NotAList == <<Node("not_a_list", "", <<>>, <<>>, <<>>)>>

RECURSIVE LastDocument(_)
\* The loop with every document environment taking the place of the one before.
LastDocument(top_level_nodelist) ==
    IF top_level_nodelist = <<>> THEN None
    ELSE LET node == top_level_nodelist[Len(top_level_nodelist)]
         IN  IF node.type = "environment" /\ node.name = "document"
             THEN Some(node)
             ELSE LastDocument(SubSeq(top_level_nodelist, 1, Len(top_level_nodelist) - 1))

RECURSIVE FirstDocument(_)
\* The loop over the top-level nodes: the first environment node named
\* document is kept, a None entry and any other node is passed over.
FirstDocument(top_level_nodelist) ==
    IF top_level_nodelist = <<>> THEN None
    ELSE IF Head(top_level_nodelist).type = "environment"
            /\ Head(top_level_nodelist).name = "document"
         THEN Some(Head(top_level_nodelist))
         ELSE FirstDocument(Tail(top_level_nodelist))

extract_document_body_nodelist(top_level_nodelist) ==
    LET document_node_found == FirstDocument(top_level_nodelist)
    IN  IF document_node_found = None THEN None
        ELSE IF document_node_found[1].nodelist # NotAList
             THEN Some(document_node_found[1].nodelist)
             ELSE None

\* Update with the merge turned around: an entry of defaults is kept on collision.
UpdateKeepsDefault(defaults, custom) ==
    [k \in DOMAIN defaults \cup DOMAIN custom |->
        IF k \in DOMAIN defaults THEN defaults[k] ELSE custom[k]]

\* A merge that keeps the scanner's entries alone.
UpdateDropsDefaults(defaults, custom) == custom

\* dict.update: the entries of custom over those of defaults.
Update(defaults, custom) ==
    [k \in DOMAIN defaults \cup DOMAIN custom |->
        IF k \in DOMAIN custom THEN custom[k] ELSE defaults[k]]

\* The default table after a merge that updates the table itself.
DefaultsAfterMergeInPlace(defaults, custom) ==
    IF custom # <<>> THEN Update(defaults, custom) ELSE defaults

\* The default table after STEP 4: the update goes to the copy, the table stays.
DefaultsAfterMerge(defaults, custom) == defaults

\* The dictionaries of translation_maps.py as the process holds them.
StaticTables ==
    [ SYMBOL_MAP |-> SYMBOL_MAP,
      BLACKBOARD_BOLD_MAP |-> BLACKBOARD_BOLD_MAP,
      SCRIPT_MAP |-> SCRIPT_MAP,
      SUBSCRIPT_MAP |-> SUBSCRIPT_MAP,
      DEFAULT_LATEX_ENV_TO_LEAN_KEYWORD |-> DEFAULT_LATEX_ENV_TO_LEAN_KEYWORD ]

\* STEP 4 of main: a copy of the default table as the process holds it, with
\* the scanner's table over it when that is not empty.
CombinedEnvMap(defaults, custom) ==
    IF custom # <<>> THEN Update(defaults, custom) ELSE defaults

(***************************************************************************)
(* The input files of the model.                                           *)
(***************************************************************************)
\* The sequences over S of length lo..hi.
SeqsOf(S, lo, hi) == UNION {[1..n -> S] : n \in lo..hi}

Chr(chars) == LatexCharsNode(chars)
Mac(macroname) == LatexMacroNode(macroname, <<>>)
Grp(nodes) == LatexGroupNode(nodes)
Inline(nodes) == LatexMathNode("inline", nodes)
Label(id) == LatexMacroNode("label", <<Grp(<<Chr(id)>>)>>)

\* Text runs: up to MaxPieces pieces, each an escape sequence, a letter or a backslash.
EscapedPunctuation == {"$", "%", "#", "{", "}", "&"}
TextPieces == {<<"\\", c>> : c \in EscapedPunctuation} \cup {<<"a">>, <<"\\">>}
TextDocs == {<<Chr(Concat(ps))>> : ps \in SeqsOf(TextPieces, 1, MaxPieces)}

\* Sub- and superscripts of a base x: the argument absent, empty, or up to MaxArgLen characters.
ScriptChars == {"i", "j", "Q", "1"}
ScriptArgs ==
    {NoneNode, Grp(<<>>), Grp(<<Mac("beta")>>), Grp(<<Mac("alpha")>>),
     Grp(<<Chr(<<"i">>), Mac("alpha")>>), Grp(<<Mac("ln")>>), Grp(<<Mac("Spec")>>)}
    \cup {Grp(<<Chr(s)>>) : s \in SeqsOf(ScriptChars, 1, MaxArgLen)}
    \cup {Chr(<<c>>) : c \in ScriptChars}
ScriptDocs ==
    {<<Inline(<<Chr(<<"x">>), LatexSpecialsNode(m, <<a>>)>>)>> :
        m \in {"_", "^"}, a \in ScriptArgs}
    \cup {<<Inline(<<Chr(<<"x">>), LatexSpecialsNode(m, <<>>)>>)>> : m \in {"_", "^"}}

\* Fractions: a side is up to MaxSideLen nodes.
SideNodes ==
    {Chr(<<"a">>), Chr(<<"1">>), Chr(<<"+">>), Chr(<<"-">>), Chr(<<"/">>),
     Mac("times"), Mac("div"), Mac("cdot"),
     LatexMacroNode("frac", <<Grp(<<Chr(<<"a">>)>>), Grp(<<Chr(<<"b">>)>>)>>)}
Sides == SeqsOf(SideNodes, 1, MaxSideLen)
Frac(n, d) == <<Inline(<<LatexMacroNode("frac", <<Grp(n), Grp(d)>>)>>)>>
\* One side is c; or the numerator is c+ and the denominator a single node.
FracDocs ==
    {IF side = "numerator" THEN Frac(s, <<Chr(<<"c">>)>>) ELSE Frac(<<Chr(<<"c">>)>>, s) :
        s \in Sides, side \in {"numerator", "denominator"}}
    \cup {Frac(<<Chr(<<"c">>), Chr(<<"+">>)>>, <<d>>) : d \in SideNodes}

\* Commands: of SYMBOL_MAP, and of no table.
MacroNames == {"Spec", "Z", "alpha", "times"}
MacroDocs ==
    UNION {{<<Mac(m)>>, <<Mac(m), Mac(m)>>, <<Inline(<<Mac(m)>>)>>, <<Chr(<<"a">>), Mac(m)>>,
            <<LatexMacroNode(m, <<Grp(<<Chr(<<"a">>)>>)>>)>>} : m \in MacroNames}

\* Environments, with and without a label.
EnvNames == {"theorem", "proposition", "mythm", "prop"}
EnvBodies ==
    {<<Chr(<<"X">>)>>,
     <<Label(<<"T", "1">>), Chr(<<"X">>)>>,
     <<Chr(<<"X">>), Label(<<"T", "1">>)>>,
     <<Label(<<"T", "1">>), Inline(<<Chr(<<"a">>), LatexSpecialsNode("^", <<Chr(<<"2">>)>>)>>)>>}
EnvDocs == {<<LatexEnvironmentNode(e, <<>>, b)>> : e \in EnvNames, b \in EnvBodies}

\* Structural commands: a fraction, a root and a font command, each with its
\* argument slots filled, empty (None) or not there at all.
Arg == Grp(<<Chr(<<"a">>)>>)
StructuralNodes ==
    {LatexMacroNode("frac", args) : args \in {<<Arg, Arg>>, <<Arg, NoneNode>>, <<NoneNode, Arg>>, <<Arg>>, <<>>}}
    \cup {LatexMacroNode("sqrt", args) : args \in {<<NoneNode, Arg>>, <<Grp(<<Chr(<<"3">>)>>), Arg>>,
                                                   <<NoneNode, NoneNode>>, <<Arg, NoneNode>>, <<>>}}
    \cup {LatexMacroNode(f, args) : f \in {"mathbb", "mathcal", "mathbf"}, args \in {<<Arg>>, <<NoneNode>>, <<>>}}
\* The command alone, after text, under environments and unknown commands, and
\* as the argument of a subscript and of a fraction.
StructuralDocs ==
    UNION {{<<Inline(<<s>>)>>,
            <<Chr(<<"a">>), Inline(<<s>>), Mac("Spec")>>,
            <<LatexEnvironmentNode("theorem", <<>>, <<Label(<<"T", "1">>), Inline(<<s>>)>>)>>,
            <<LatexEnvironmentNode("itemize", <<>>, <<Mac("item"), Inline(<<s>>)>>)>>,
            <<Inline(<<Chr(<<"x">>), LatexSpecialsNode("_", <<Grp(<<s>>)>>)>>)>>,
            <<Inline(<<LatexMacroNode("frac", <<Grp(<<s>>), Arg>>)>>)>>} : s \in StructuralNodes}

\* Font commands: a letter of the tables, a letter of no table, and two letters.
FontArgs == {<<"R">>, <<"F">>, <<"v">>, <<"R", "Z">>}
FontDocs ==
    {<<Inline(<<LatexMacroNode(f, <<Grp(<<Chr(a)>>)>>)>>)>> :
        f \in {"mathbb", "mathcal", "mathbf"}, a \in FontArgs}

\* Mixed bodies: up to MaxTopNodes top-level nodes, among them a comment and a
\* fraction that lacks an argument.
TopNodes ==
    {Chr(<<"a">>), LatexCommentNode(<<"c">>), Mac("Spec"), Mac("alpha"),
     Inline(<<Chr(<<"x">>), LatexSpecialsNode("_", <<Chr(<<"i">>)>>)>>),
     LatexEnvironmentNode("theorem", <<>>, <<Label(<<"T", "1">>), Chr(<<"X">>)>>),
     Inline(<<LatexMacroNode("frac", <<Arg>>)>>)}
SequenceDocs == SeqsOf(TopNodes, 1, MaxTopNodes)

\* Preambles: up to MaxDecls declarations.
Declarations ==
    {NewTheorem(FALSE, <<"proposition">>, "", <<"Prop">>),
     NewTheorem(FALSE, <<"prop">>, "", <<"Proposition">>),
     NewTheorem(TRUE, <<"mythm">>, "", <<"Axiom">>),
     NewTheorem(FALSE, <<" ", "proposition", " ">>, "[theorem]", <<"Axiom">>)}
Preambles == SeqsOf(Declarations, 0, MaxDecls)

\* The lines of a preamble: the declarations in their three shapes, with blank
\* and empty arguments, and what else a preamble holds.
PreambleItems ==
    Declarations
    \cup {NewTheorem(TRUE, <<"prop">>, "", <<"Proposition">>),
          NewTheorem(FALSE, <<"prop">>, "[theorem]", <<"Proposition">>),
          NewTheorem(FALSE, <<" ", "defn", " ">>, "", <<"Definition">>),
          NewTheorem(FALSE, <<" ">>, "", <<"Axiom">>),
          NewTheorem(FALSE, <<"prop">>, "", <<" ">>),
          NewTheorem(FALSE, <<"prop">>, "", <<" ", "Printed", " ", "Name", " ">>),
          NewTheorem(FALSE, <<"prop">>, "[]", <<"Axiom">>),
          NewCommand(<<"\\R">>, <<"\\mathbb{R}">>),
          TrailingBracket}
ScannerPreambles == SeqsOf(PreambleItems, 1, MaxDecls)

\* Top-level node lists: one document, two, none, one inside a group, one
\* after a None entry and other nodes, one whose body is no list.
DocumentEnv(body) == LatexEnvironmentNode("document", <<>>, body)
TopLevelLists ==
    {<<DocumentEnv(<<>>)>>,
     <<DocumentEnv(<<Chr(<<"a">>)>>), DocumentEnv(<<Chr(<<"b">>)>>)>>,
     <<NoneNode, DocumentEnv(<<Chr(<<"a">>)>>), DocumentEnv(<<Chr(<<"b">>)>>)>>,
     <<LatexCommentNode(<<"c">>), LatexEnvironmentNode("theorem", <<>>, <<Chr(<<"X">>)>>),
       DocumentEnv(<<Chr(<<"a">>)>>)>>,
     <<NoneNode>>,
     <<LatexEnvironmentNode("theorem", <<>>, <<Chr(<<"X">>)>>)>>,
     <<Grp(<<DocumentEnv(<<Chr(<<"a">>)>>)>>)>>,
     <<DocumentEnv(NotAList)>>,
     <<DocumentEnv(NotAList), DocumentEnv(<<Chr(<<"a">>)>>)>>,
     <<DocumentEnv(<<Chr(<<"a">>)>>), DocumentEnv(NotAList)>>}

\* Texts around \begin{document}: a declaration after it, an upper-case one
\* (in a comment) before the one the parser reads, one written with a space,
\* which the pattern does not match, and texts with an \end{document}.
BeginDocumentUpper ==
    Text(<<"\\", "B", "E", "G", "I", "N", "{", "D", "O", "C", "U", "M", "E", "N", "T", "}">>)
BeginDocumentSpaced ==
    Text(<<"\\", "b", "e", "g", "i", "n", " ", "{", "d", "o", "c", "u", "m", "e", "n", "t", "}">>)
EndDocumentUpper ==
    Text(<<"\\", "E", "N", "D", "{", "D", "O", "C", "U", "M", "E", "N", "T", "}">>)
SplitItems ==
    {NewTheorem(FALSE, <<"proposition">>, "", <<"Prop">>),
     NewTheorem(FALSE, <<"prop">>, "", <<"Proposition">>),
     BeginDocument, BeginDocumentUpper, BeginDocumentSpaced,
     EndDocument, EndDocumentUpper}
SplitTexts == SeqsOf(SplitItems, 1, MaxItems)
PropositionDocument ==
    <<DocumentEnv(<<LatexEnvironmentNode("proposition", <<>>, <<Chr(<<"X">>)>>)>>)>>

\* The file of a document body under a preamble.
Document(preamble, body) ==
    TexSource(preamble \o <<BeginDocument>>, "ok",
              <<LatexEnvironmentNode("document", <<>>, body)>>)

\* The input files, family by family.
InputFamilies ==
    {{Document(<<>>, b) : b \in TextDocs},
     {Document(<<>>, b) : b \in ScriptDocs},
     {Document(<<>>, b) : b \in FracDocs},
     {Document(p, b) : p \in Preambles, b \in EnvDocs},
     {Document(p, b) : p \in SeqsOf(Declarations, 0, 1), b \in MacroDocs},
     {Document(<<>>, b) : b \in StructuralDocs},
     {Document(<<>>, b) : b \in FontDocs},
     {Document(<<>>, b) : b \in SequenceDocs},
     {Document(p, <<LatexEnvironmentNode("prop", <<>>, <<Chr(<<"X">>)>>)>>) : p \in ScannerPreambles},
     {TexSource(<<>>, "ok", <<>>),
      TexSource(<<BeginDocument>>, "error", <<>>),
      TexSource(<<BeginDocument>>, "exception", <<>>),
      TexSource(<<BeginDocument>>, "ok", <<Chr(<<"a">>)>>)},
     {TexSource(<<BeginDocument>>, "ok", ast) : ast \in TopLevelLists},
     {TexSource(text, "ok", PropositionDocument) : text \in SplitTexts}}

\* The files of two runs in one process: a preamble that declares
\* proposition anew, none, one that declares prop, plain text, the empty
\* file and a file the parser rejects.
TwoRunInputs ==
    {TexSource(<<NewTheorem(FALSE, <<"proposition">>, "", <<"Prop">>), BeginDocument>>,
               "ok", PropositionDocument),
     TexSource(<<BeginDocument>>, "ok", PropositionDocument),
     Document(<<NewTheorem(FALSE, <<"prop">>, "", <<"Proposition">>)>>,
              <<LatexEnvironmentNode("prop", <<>>, <<Chr(<<"X">>)>>)>>),
     Document(<<>>, <<Chr(<<"a">>)>>),
     TexSource(<<>>, "ok", <<>>),
     TexSource(<<BeginDocument>>, "error", <<>>)}

\* The local variables of main() as it starts on a file.
StartOfRun(tex) ==
    [pc |-> "read", tex_source |-> tex, nodelist |-> None, body_nodelist |-> None,
     combined_env_map |-> <<>>, translated |-> None, output_file |-> None,
     parser_invoked |-> FALSE, custom_newtheorem_map |-> None]

\* No second run.
NoRun == [StartOfRun(TexSource(<<>>, "ok", <<>>)) EXCEPT !.pc = "none"]

(***************************************************************************)
(* main() of process_tex_file.py, one action per step.                     *)
(***************************************************************************)
Init ==
    /\ pc = "read"
    /\ \E files \in InputFamilies : tex_source \in files
    /\ nodelist = None
    /\ body_nodelist = None
    /\ combined_env_map = <<>>
    /\ translated = None
    /\ output_file = None
    /\ static_tables = StaticTables
    /\ parser_invoked = FALSE
    /\ custom_newtheorem_map = None
    /\ other_run = NoRun

\* An exit with status 0: the run ends as a successful one does.
Exit0 == pc' = "done"

\* sys.exit(1)
Exit1 == pc' = "exit1"

\* Read Input File: the text is read, or the file cannot be read.
ReadInput ==
    /\ pc = "read"
    /\ \E readable \in BOOLEAN : IF readable THEN pc' = "parse" ELSE Exit1
    /\ UNCHANGED <<other_run, custom_newtheorem_map, tex_source, nodelist, body_nodelist, combined_env_map, translated, output_file, static_tables,
                 parser_invoked>>

\* STEP 1: Parse Full LaTeX Source to AST.
Parse ==
    /\ pc = "parse"
    /\ nodelist' = parse_latex_to_ast_v210(tex_source)
    /\ parser_invoked' = InvokesLatexWalker(tex_source)
    /\ IF nodelist' = None THEN Exit1 ELSE pc' = "subst"
    /\ UNCHANGED <<other_run, custom_newtheorem_map, tex_source, body_nodelist, combined_env_map, translated, output_file, static_tables>>

\* STEP 2: Apply Command Substitutions; the pass may raise (or return None, which
\* ends the run the same way).  The documents of the model define no command, so
\* the pass returns the tree as it is.
Substitute ==
    /\ pc = "subst"
    /\ \E raised \in BOOLEAN :
          IF raised THEN Exit1 /\ UNCHANGED nodelist
          ELSE pc' = "extract" /\ nodelist' = nodelist
    /\ UNCHANGED <<other_run, custom_newtheorem_map, tex_source, body_nodelist, combined_env_map, translated, output_file, static_tables,
                 parser_invoked>>

\* STEP 3: Extract Document Body AST.
ExtractBody ==
    /\ pc = "extract"
    /\ body_nodelist' = extract_document_body_nodelist(nodelist[1])
    /\ IF body_nodelist' = None THEN Exit1 ELSE pc' = "preamble"
    /\ UNCHANGED <<other_run, custom_newtheorem_map, tex_source, nodelist, combined_env_map, translated, output_file, static_tables,
                 parser_invoked>>

\* STEP 4: Process Preamble String for Environment Mappings.
ProcessPreamble ==
    /\ pc = "preamble"
    /\ LET preamble == _split_preamble_and_body(tex_source.text)[1]
           custom == extract_newtheorem_mappings(preamble)
       IN  /\ custom_newtheorem_map' = Some(custom)
           /\ combined_env_map' =
                 CombinedEnvMap(static_tables.DEFAULT_LATEX_ENV_TO_LEAN_KEYWORD, custom)
           /\ static_tables' =
                 [static_tables EXCEPT !.DEFAULT_LATEX_ENV_TO_LEAN_KEYWORD =
                     DefaultsAfterMerge(@, custom)]
    /\ pc' = "translate"
    /\ UNCHANGED <<other_run, tex_source, nodelist, body_nodelist, translated, output_file,
                   parser_invoked>>

\* STEP 4 with an exception abandoning the run.
ProcessPreambleAborts ==
    /\ pc = "preamble"
    /\ Exit1
    /\ UNCHANGED <<other_run, custom_newtheorem_map, tex_source, nodelist, body_nodelist, combined_env_map,
                   translated, output_file, static_tables, parser_invoked>>

\* STEP 4 when extract_newtheorem_mappings raises: the exception is logged, no
\* table was assigned and none merged, and main goes on with the copy of the
\* default table.
ProcessPreambleRaises ==
    /\ pc = "preamble"
    /\ combined_env_map' = static_tables.DEFAULT_LATEX_ENV_TO_LEAN_KEYWORD
    /\ pc' = "translate"
    /\ UNCHANGED <<other_run, custom_newtheorem_map, tex_source, nodelist, body_nodelist, translated,
                   output_file, static_tables, parser_invoked>>

\* STEP 5: Translate the Extracted Body AST.
Translate ==
    /\ pc = "translate"
    /\ translated' = latex_to_lean_symbols(combined_env_map, body_nodelist[1])
    /\ pc' = "write"
    /\ UNCHANGED <<other_run, custom_newtheorem_map, tex_source, nodelist, body_nodelist, combined_env_map, output_file, static_tables,
                 parser_invoked>>

\* STEP 6: Write Output; the write may fail.
WriteOutput ==
    /\ pc = "write"
    /\ IF translated = None THEN Exit1 /\ UNCHANGED output_file
       ELSE \E written \in BOOLEAN :
               IF written THEN pc' = "done" /\ output_file' = translated
               ELSE Exit1 /\ UNCHANGED output_file
    /\ UNCHANGED <<other_run, custom_newtheorem_map, tex_source, nodelist, body_nodelist, combined_env_map, translated, static_tables,
                 parser_invoked>>

Next ==
    \/ ReadInput
    \/ Parse
    \/ Substitute
    \/ ExtractBody
    \/ ProcessPreamble
    \/ Translate
    \/ WriteOutput

Spec == Init /\ [][Next]_vars

\* Two runs of main() over different files in one process, each with its own
\* local variables, both with the tables of translation_maps.py.
InitTwoRuns ==
    /\ pc = "read"
    /\ tex_source \in TwoRunInputs
    /\ nodelist = None
    /\ body_nodelist = None
    /\ combined_env_map = <<>>
    /\ translated = None
    /\ output_file = None
    /\ static_tables = StaticTables
    /\ parser_invoked = FALSE
    /\ custom_newtheorem_map = None
    /\ other_run \in {StartOfRun(tex) : tex \in TwoRunInputs \ {tex_source}}

\* The scheduler takes the running one off and puts the other run on: the local
\* variables change places, the tables of the process stay.
Switch ==
    /\ other_run.pc # "none"
    /\ other_run' =
          [pc |-> pc, tex_source |-> tex_source, nodelist |-> nodelist,
           body_nodelist |-> body_nodelist, combined_env_map |-> combined_env_map,
           translated |-> translated, output_file |-> output_file,
           parser_invoked |-> parser_invoked,
           custom_newtheorem_map |-> custom_newtheorem_map]
    /\ pc' = other_run.pc
    /\ tex_source' = other_run.tex_source
    /\ nodelist' = other_run.nodelist
    /\ body_nodelist' = other_run.body_nodelist
    /\ combined_env_map' = other_run.combined_env_map
    /\ translated' = other_run.translated
    /\ output_file' = other_run.output_file
    /\ parser_invoked' = other_run.parser_invoked
    /\ custom_newtheorem_map' = other_run.custom_newtheorem_map
    /\ UNCHANGED static_tables

NextTwoRuns ==
    \/ Next
    \/ Switch

SpecTwoRuns == InitTwoRuns /\ [][NextTwoRuns]_vars

\* The runs in which the preamble scan may raise.
NextScanFails ==
    \/ Next
    \/ ProcessPreambleRaises

SpecScanFails == Init /\ [][NextScanFails]_vars

(***************************************************************************)
(* What the claims read of a state.                                        *)
(***************************************************************************)
\* The run wrote its output.
Done == pc = "done"
\* The document body that was translated, and the text that was written.
Body == body_nodelist[1]
Out == output_file[1]
\* The table the preamble scanner supplied for this input.
ScannerTable == extract_newtheorem_mappings(_split_preamble_and_body(tex_source.text)[1])

StartsWith(s, prefix) == Len(prefix) <= Len(s) /\ SubSeq(s, 1, Len(prefix)) = prefix
EndsWith(s, suffix) ==
    Len(suffix) <= Len(s) /\ SubSeq(s, Len(s) - Len(suffix) + 1, Len(s)) = suffix

\* The compact Unicode subscript glyphs.
SubscriptGlyphs == {SUBSCRIPT_MAP[c] : c \in DOMAIN SUBSCRIPT_MAP}
HasSubscriptGlyph(s) == \E i \in 1..Len(s) : s[i] \in SubscriptGlyphs

(***************************************************************************)
(* C1: once main has built the environment map, every environment name     *)
(* that is in both the default table and the scanner's table resolves to   *)
(* the scanner's value (default proposition -> theorem, override           *)
(* proposition -> Prop: the map says Prop).                                *)
(***************************************************************************)
C1_MergeLastWriteWins ==
    pc \in {"translate", "write", "done"} =>
        \A k \in DOMAIN ScannerTable \cap DOMAIN DEFAULT_LATEX_ENV_TO_LEAN_KEYWORD :
            /\ k \in DOMAIN combined_env_map
            /\ combined_env_map[k] = ScannerTable[k]

C1_Witness ==
    /\ pc = "translate"
    /\ "proposition" \in DOMAIN ScannerTable
    /\ ScannerTable["proposition"] = "Prop"
    /\ DEFAULT_LATEX_ENV_TO_LEAN_KEYWORD["proposition"] = "theorem"
    /\ combined_env_map["proposition"] = "Prop"

(***************************************************************************)
(* Documents of one shape.                                                 *)
(***************************************************************************)
\* $base<marker>arg$: a text run and one sub/superscript node.
IsScriptDoc(b, marker) ==
    /\ Len(b) = 1 /\ b[1].type = "math" /\ Len(b[1].nodelist) = 2
    /\ b[1].nodelist[1].type = "chars"
    /\ b[1].nodelist[2].type = "specials" /\ b[1].nodelist[2].name = marker
ScriptBase(b) == b[1].nodelist[1].chars
ScriptNode(b) == b[1].nodelist[2]

\* An argument whose translation is its own characters: a text run, or a group of text runs.
IsFlat(arg) ==
    \/ arg.type = "chars"
    \/ arg.type = "group" /\ \A i \in 1..Len(arg.nodelist) : arg.nodelist[i].type = "chars"
FlatChars(arg) ==
    IF arg.type = "chars" THEN arg.chars
    ELSE Concat([i \in 1..Len(arg.nodelist) |-> arg.nodelist[i].chars])

(***************************************************************************)
(* C2: a subscript is all-or-nothing per argument.  When every character   *)
(* of the argument is a key of SUBSCRIPT_MAP the output is the unchanged   *)
(* base followed by the glyph of each character (x_{ij}, x_1); when one    *)
(* character is not, the output is the base, then the fallback notation    *)
(* ending with the argument verbatim, and holds no subscript glyph         *)
(* (x_{iQ}).                                                               *)
(***************************************************************************)
C2_SubscriptAllOrNothing ==
    (Done /\ IsScriptDoc(Body, "_") /\ HasArg(ScriptNode(Body), 1)
          /\ IsFlat(ScriptNode(Body).argnlist[1])) =>
        LET base == ScriptBase(Body)
            arg == FlatChars(ScriptNode(Body).argnlist[1])
        IN  /\ IF \A i \in 1..Len(arg) : arg[i] \in DOMAIN SUBSCRIPT_MAP
               THEN Out = base \o [i \in 1..Len(arg) |-> SUBSCRIPT_MAP[arg[i]]]
               ELSE /\ StartsWith(Out, base)
                    /\ EndsWith(Out, arg)
                    /\ Len(Out) > Len(base) + Len(arg)
                    /\ ~HasSubscriptGlyph(Out)
            /\ arg = <<"i", "j">> => Out = base \o <<"U+1D62", "U+2C7C">>
            /\ arg = <<"1">> => Out = base \o <<"U+2081">>
            /\ arg = <<"i", "Q">> => ~HasSubscriptGlyph(Out)

\* x_{ij} came out compact.
C2_WitnessCompact ==
    /\ Done /\ IsScriptDoc(Body, "_") /\ HasArg(ScriptNode(Body), 1)
    /\ ScriptNode(Body).argnlist[1] = Grp(<<Chr(<<"i", "j">>)>>)
    /\ Out = <<"x", "U+1D62", "U+2C7C">>

\* x_{iQ} came out in the fallback notation.
C2_WitnessFallback ==
    /\ Done /\ IsScriptDoc(Body, "_") /\ HasArg(ScriptNode(Body), 1)
    /\ ScriptNode(Body).argnlist[1] = Grp(<<Chr(<<"i", "Q">>)>>)
    /\ EndsWith(Out, <<"i", "Q">>) /\ ~HasSubscriptGlyph(Out)

IsEnvDoc(b) == Len(b) = 1 /\ b[1].type = "environment"

\* A fraction, root or font command that lacks a required argument slot.
LacksRequiredArg(node) ==
    /\ node.type = "macro"
    /\ \/ node.name = "frac" /\ ~(HasArg(node, 1) /\ HasArg(node, 2))
       \/ node.name = "sqrt" /\ ~HasArg(node, 2)
       \/ node.name \in {"mathbb", "mathcal", "mathbf"} /\ ~HasArg(node, 1)

RECURSIVE HoldsMalformed(_)
\* Some node of the sequence, at any depth, lacks a required argument slot.
HoldsMalformed(nodes) ==
    \E i \in 1..Len(nodes) :
        \/ LacksRequiredArg(nodes[i])
        \/ HoldsMalformed(nodes[i].argnlist)
        \/ HoldsMalformed(nodes[i].nodelist)

IsFracDoc(b) ==
    /\ Len(b) = 1 /\ b[1].type = "math" /\ Len(b[1].nodelist) = 1
    /\ b[1].nodelist[1].type = "macro" /\ b[1].nodelist[1].name = "frac"
    /\ HasArg(b[1].nodelist[1], 1) /\ HasArg(b[1].nodelist[1], 2)
FracNode(b) == b[1].nodelist[1]
\* The translation of each side.
NumeratorText(b) == TranslateNode(FracNode(b).argnlist[1], combined_env_map, TRUE)
DenominatorText(b) == TranslateNode(FracNode(b).argnlist[2], combined_env_map, TRUE)

Parenthesised(numerator, denominator) ==
    <<"(">> \o numerator \o <<")", "/", "(">> \o denominator \o <<")">>
Bare(numerator, denominator) == numerator \o <<"/">> \o denominator

\* A bare number, or a single identifier: a letter, then letters and digits.
Digits == {"0", "1", "2", "3", "4", "5", "6", "7", "8", "9"}
Letters == {"a", "b", "c", "x", "y"}
IsSingleToken(text) ==
    /\ text # <<>>
    /\ \/ \A i \in 1..Len(text) : text[i] \in Digits
       \/ text[1] \in Letters /\ \A i \in 1..Len(text) : text[i] \in Letters \cup Digits

\* The side holds none of + - U+00D7 U+00F7 and no slash.
NoOperatorSymbol(text) ==
    \A i \in 1..Len(text) : text[i] \notin {"+", "-", "U+00D7", "U+00F7", "/"}

\* A node of the side is the command \times or \div.
HoldsTimesOrDiv(group) ==
    \E i \in 1..Len(group.nodelist) :
        group.nodelist[i].type = "macro" /\ group.nodelist[i].name \in {"times", "div"}

(***************************************************************************)
(* C4: a fraction is never under-parenthesised.  Whenever the translated   *)
(* numerator or denominator is not a single atomic token (a bare number or *)
(* a single identifier), the output is (numerator)/(denominator).          *)
(***************************************************************************)
C4_NeverUnderParenthesised ==
    (Done /\ IsFracDoc(Body)
          /\ (~IsSingleToken(NumeratorText(Body)) \/ ~IsSingleToken(DenominatorText(Body)))) =>
        Out = Parenthesised(NumeratorText(Body), DenominatorText(Body))

(***************************************************************************)
(* C5: a fraction side is atomic exactly when its translated text holds    *)
(* none of + - U+00D7 U+00F7 and no slash (so a side with \times or \div   *)
(* is not); the output is numerator/denominator exactly when both sides    *)
(* are atomic, and (numerator)/(denominator) otherwise, also when only one *)
(* side is not atomic.                                                     *)
(***************************************************************************)
C5_AtomicIffNoOperatorSymbol ==
    (Done /\ IsFracDoc(Body)) =>
        LET n == NumeratorText(Body)
            d == DenominatorText(Body)
        IN  /\ IF NoOperatorSymbol(n) /\ NoOperatorSymbol(d)
               THEN Out = Bare(n, d)
               ELSE Out = Parenthesised(n, d)
            /\ (HoldsTimesOrDiv(FracNode(Body).argnlist[1])
                    \/ HoldsTimesOrDiv(FracNode(Body).argnlist[2]))
                  => Out = Parenthesised(n, d) /\ Out[1] = "("

\* \frac{a \times}{c}: one side atomic, the other not, both parenthesised.
C5_Witness ==
    /\ Done /\ IsFracDoc(Body)
    /\ FracNode(Body).argnlist[1] = Grp(<<Chr(<<"a">>), Mac("times")>>)
    /\ FracNode(Body).argnlist[2] = Grp(<<Chr(<<"c">>)>>)
    /\ Out = <<"(", "a", "U+00D7", ")", "/", "(", "c", ")">>

\* The text emitted for each side: the output without the slash and the parentheses.
EmittedNumerator(out, b) ==
    IF out[1] = "(" /\ out # Bare(NumeratorText(b), DenominatorText(b))
    THEN SubSeq(out, 2, 1 + Len(NumeratorText(b)))
    ELSE SubSeq(out, 1, Len(NumeratorText(b)))
EmittedDenominator(out, b) ==
    IF out[Len(out)] = ")" /\ out # Bare(NumeratorText(b), DenominatorText(b))
    THEN SubSeq(out, Len(out) - Len(DenominatorText(b)), Len(out) - 1)
    ELSE SubSeq(out, Len(out) - Len(DenominatorText(b)) + 1, Len(out))

STRUCTURAL_COMMANDS == {"frac", "sqrt", "mathbb", "mathcal", "mathbf", "label"}
IsUnknownCommand(node) ==
    /\ node.type = "macro"
    /\ node.name \notin DOMAIN SYMBOL_MAP
    /\ node.name \notin STRUCTURAL_COMMANDS

(***************************************************************************)
(* C7: a command that is in no table and is not structural is rendered by  *)
(* one fallback that depends on the command alone: the same text at every  *)
(* occurrence, in text and in math, under every environment map, for every *)
(* such command name, and never the empty text.                            *)
(***************************************************************************)
C7_UnknownCommandFallback ==
    Done =>
        /\ (Len(Body) = 1 /\ IsUnknownCommand(Body[1])) =>
              /\ Out # <<>>
              /\ StartsWith(Out, Chars[Body[1].name])
              /\ Body[1].argnlist = <<>> => Out = Chars[Body[1].name]
        /\ (Len(Body) = 2 /\ IsUnknownCommand(Body[1]) /\ Body[2] = Body[1]) =>
              /\ Out # <<>>
              /\ Out = Chars[Body[1].name] \o Chars[Body[1].name]
        /\ (Len(Body) = 1 /\ Body[1].type = "math" /\ Len(Body[1].nodelist) = 1
                /\ IsUnknownCommand(Body[1].nodelist[1])) =>
              Out = Chars[Body[1].nodelist[1].name]
        /\ (Len(Body) = 2 /\ Body[1].type = "chars" /\ IsUnknownCommand(Body[2])) =>
              Out = Body[1].chars \o Chars[Body[2].name]

\* \Spec\Spec came out as the same text twice, under a map the preamble changed.
C7_Witness ==
    /\ Done
    /\ Body = <<Mac("Spec"), Mac("Spec")>>
    /\ combined_env_map # DEFAULT_LATEX_ENV_TO_LEAN_KEYWORD
    /\ Out = <<"S", "p", "e", "c", "S", "p", "e", "c">>

IsTextDoc(b) == Len(b) = 1 /\ b[1].type = "chars"
OnlyEscapeSequences(run) ==
    /\ run # <<>>
    /\ Len(run) % 2 = 0
    /\ \A i \in 1..Len(run) :
          IF i % 2 = 1 THEN run[i] = "\\" ELSE run[i] \in EscapedPunctuation
NoEscapeSequence(run) ==
    \A i \in 1..(Len(run) - 1) : ~(run[i] = "\\" /\ run[i + 1] \in EscapedPunctuation)

(***************************************************************************)
(* C8: a text run built only from the escape sequences \$ \% \# \{ \} \&   *)
(* comes out as the escaped characters, in order, with no backslash left;  *)
(* a text run that holds no escape sequence comes out verbatim.            *)
(***************************************************************************)
C8_EscapesRoundTrip ==
    (Done /\ IsTextDoc(Body)) =>
        LET run == Body[1].chars
        IN  /\ OnlyEscapeSequences(run) =>
                  /\ Out = [i \in 1..(Len(run) \div 2) |-> run[2 * i]]
                  /\ \A i \in 1..Len(Out) : Out[i] # "\\"
            /\ NoEscapeSequence(run) => Out = run

\* \$\& came out as $&.
C8_Witness ==
    /\ Done
    /\ Body = <<Chr(<<"\\", "$", "\\", "&">>)>>
    /\ Out = <<"$", "&">>

IsLabel(node) == node.type = "macro" /\ node.name = "label" /\ HasArg(node, 1)
WithoutLabels(nodes) == SelectSeq(nodes, LAMBDA n : ~IsLabel(n))
Occurrences(s, sub) ==
    Cardinality({i \in 0..(Len(s) - Len(sub)) : SubSeq(s, i + 1, i + Len(sub)) = sub})

(***************************************************************************)
(* C9: an environment whose name is in the environment map and whose body  *)
(* holds a \label comes out as the mapped keyword framing the translated   *)
(* body, with the label's identifier in the framing (once in the whole     *)
(* output) and the body translated as if the label were not there.         *)
(***************************************************************************)
C9_LabelAttachedToFraming ==
    (Done /\ IsEnvDoc(Body) /\ Body[1].name \in DOMAIN combined_env_map) =>
        \A k \in 1..Len(Body[1].nodelist) :
            (IsLabel(Body[1].nodelist[k]) /\ IsFlat(Body[1].nodelist[k].argnlist[1])) =>
                LET keyword == Chars[combined_env_map[Body[1].name]]
                    id == FlatChars(Body[1].nodelist[k].argnlist[1])
                    text == latex_to_lean_symbols(combined_env_map,
                                                  WithoutLabels(Body[1].nodelist))[1]
                IN  /\ StartsWith(Out, keyword)
                    /\ EndsWith(Out, text)
                    /\ Occurrences(Out, id) = 1
                    /\ Contains(SubSeq(Out, 1, Len(Out) - Len(text)), id)
                    /\ Out = FrameEnvironment(keyword, id, text)

\* \begin{theorem}\label{T1}$a^2$\end{theorem} came out as the keyword, T1 and a^2.
C9_Witness ==
    /\ Done /\ IsEnvDoc(Body)
    /\ Body[1].name = "theorem"
    /\ Body[1].nodelist[1] = Label(<<"T", "1">>)
    /\ StartsWith(Out, Chars["theorem"])
    /\ Contains(Out, <<"T", "1">>)
    /\ EndsWith(Out, <<"a", "^", "2">>)

(***************************************************************************)
(* C10: a superscript argument is appended to the base literally: the      *)
(* output is the base, at most the marker, and the argument's characters   *)
(* unchanged; it holds no compact glyph, also when every character of the  *)
(* argument is a key of SUBSCRIPT_MAP.                                     *)
(***************************************************************************)
C10_SuperscriptLiteral ==
    (Done /\ IsScriptDoc(Body, "^") /\ HasArg(ScriptNode(Body), 1)
          /\ IsFlat(ScriptNode(Body).argnlist[1])) =>
        LET base == ScriptBase(Body)
            arg == FlatChars(ScriptNode(Body).argnlist[1])
        IN  /\ StartsWith(Out, base)
            /\ EndsWith(Out, arg)
            /\ Len(Out) <= Len(base) + Len(arg) + 1
            /\ ~HasSubscriptGlyph(Out)

\* x^{ij}, every character a key of SUBSCRIPT_MAP, came out with i and j as they are.
C10_Witness ==
    /\ Done /\ IsScriptDoc(Body, "^") /\ HasArg(ScriptNode(Body), 1)
    /\ ScriptNode(Body).argnlist[1] = Grp(<<Chr(<<"i", "j">>)>>)
    /\ \A i \in 1..2 : <<"i", "j">>[i] \in DOMAIN SUBSCRIPT_MAP
    /\ EndsWith(Out, <<"i", "j">>)
    /\ ~HasSubscriptGlyph(Out)

(***************************************************************************)
(* Structural commands and their argument slots.                           *)
(***************************************************************************)
RECURSIVE HoldsUnknown(_, _)
\* Some node of the sequence, at any depth, is a command of no table or an
\* environment of no table.
HoldsUnknown(nodes, environment_map) ==
    \E i \in 1..Len(nodes) :
        \/ IsUnknownCommand(nodes[i])
        \/ nodes[i].type = "environment" /\ nodes[i].name \notin DOMAIN environment_map
        \/ HoldsUnknown(nodes[i].argnlist, environment_map)
        \/ HoldsUnknown(nodes[i].nodelist, environment_map)

(***************************************************************************)
(* C11: translate returns an output string, never Failure, for every body  *)
(* in which each structural command has its required argument slots, under *)
(* every environment map, whatever unknown commands and unknown            *)
(* environments the body holds; the unknown command comes out as its       *)
(* fallback and the unknown environment as its body.                       *)
(***************************************************************************)
C11_UnknownNeverFails ==
    (pc \in {"write", "done", "exit1"} /\ body_nodelist # None /\ combined_env_map # <<>>
        /\ ~HoldsMalformed(Body)) =>
        /\ translated # None
        /\ translated[1] # Failure
        /\ (Len(Body) = 1 /\ IsUnknownCommand(Body[1])) =>
              StartsWith(translated[1], Chars[Body[1].name])
        /\ (IsEnvDoc(Body) /\ Body[1].name \notin DOMAIN combined_env_map) =>
              translated = latex_to_lean_symbols(combined_env_map, Body[1].nodelist)

\* \begin{itemize}\item$\sqrt{a}$\end{itemize}: an unknown environment and an
\* unknown command around a well-formed root gave an output string.
C11_Witness ==
    /\ pc = "write"
    /\ Body = <<LatexEnvironmentNode("itemize", <<>>,
                  <<Mac("item"), Inline(<<LatexMacroNode("sqrt", <<NoneNode, Arg>>)>>)>>)>>
    /\ HoldsUnknown(Body, combined_env_map)
    /\ ~HoldsMalformed(Body)
    /\ translated = Some(<<"i", "t", "e", "m", "U+221A", "(", "a", ")">>)

Preamble == _split_preamble_and_body(tex_source.text)[1]
Scanned == combined_env_map # <<>>

\* Line i of the preamble is a theorem declaration for the name, with a printed name.
Declares(preamble, i, name) ==
    /\ preamble[i].kind = "newtheorem"
    /\ preamble[i].counter # "[]"
    /\ Strip(preamble[i].env_name) = name
    /\ Strip(preamble[i].printed) # ""

\* The last line of the preamble that declares the name.
LastDeclaration(preamble, name) ==
    CHOOSE i \in DOMAIN preamble :
        /\ Declares(preamble, i, name)
        /\ \A j \in DOMAIN preamble : Declares(preamble, j, name) => j <= i

(***************************************************************************)
(* C13: for every environment name the preamble declares, once or several  *)
(* times, the scanner's table maps the name to the printed name of its     *)
(* last declaration in textual order, and so does the merged map.          *)
(***************************************************************************)
C13_LastDeclarationWins ==
    Scanned =>
        \A i \in DOMAIN Preamble :
            LET name == Strip(Preamble[i].env_name)
            IN  (name # "" /\ Declares(Preamble, i, name)) =>
                    /\ name \in DOMAIN ScannerTable
                    /\ ScannerTable[name] =
                          Strip(Preamble[LastDeclaration(Preamble, name)].printed)
                    /\ combined_env_map[name] = ScannerTable[name]

\* proposition declared as Prop and then as Axiom: the table says Axiom.
C13_Witness ==
    /\ pc = "translate"
    /\ Preamble = <<NewTheorem(FALSE, <<"proposition">>, "", <<"Prop">>),
                    NewTheorem(FALSE, <<" ", "proposition", " ">>, "[theorem]", <<"Axiom">>)>>
    /\ LastDeclaration(Preamble, "proposition") = 2
    /\ ScannerTable["proposition"] = "Axiom"
    /\ combined_env_map["proposition"] = "Axiom"

\* The line with the star and the counter argument taken away.
PlainShape(item) ==
    IF item.kind = "newtheorem" /\ item.counter # "[]"
    THEN NewTheorem(FALSE, item.env_name, "", item.printed)
    ELSE item
\* The preamble in the plain shape, and with no bracket after a printed name.
PlainPreamble(preamble) ==
    [i \in DOMAIN SelectSeq(preamble, LAMBDA item : item.kind # "bracket") |->
        PlainShape(SelectSeq(preamble, LAMBDA item : item.kind # "bracket")[i])]

(***************************************************************************)
(* C14: a declaration in each of the shapes \newtheorem{env}{Printed},      *)
(* \newtheorem*{env}{Printed} and \newtheorem{env}[counter]{Printed} puts   *)
(* env in the table, mapped to Printed when it is the last for env; the    *)
(* star and the counter are in neither key nor value, and the table is the *)
(* one of the same preamble with every star, counter and bracket after a   *)
(* printed name taken away.                                                *)
(***************************************************************************)
C14_StarAndCounterIgnored ==
    Scanned =>
        /\ \A i \in DOMAIN Preamble :
              LET item == Preamble[i]
              IN  (item.kind = "newtheorem" /\ item.counter \in {"", "[theorem]"}
                      /\ Strip(item.env_name) # "" /\ Strip(item.printed) # "") =>
                      /\ Strip(item.env_name) \in DOMAIN ScannerTable
                      /\ (\A j \in (i + 1)..Len(Preamble) :
                              Strip(Preamble[j].env_name) # Strip(item.env_name)) =>
                            ScannerTable[Strip(item.env_name)] = Strip(item.printed)
        /\ \A name \in DOMAIN ScannerTable :
              \E i \in DOMAIN Preamble :
                  /\ name = Strip(Preamble[i].env_name)
                  /\ ScannerTable[name] = Strip(Preamble[i].printed)
        /\ ScannerTable = extract_newtheorem_mappings(PlainPreamble(Preamble))

\* \newtheorem*{prop}{Proposition} and \newtheorem{prop}[theorem]{Proposition},
\* each followed by [section], give prop -> Proposition.
C14_Witness ==
    /\ pc = "translate"
    /\ \E d \in {NewTheorem(TRUE, <<"prop">>, "", <<"Proposition">>),
                  NewTheorem(FALSE, <<"prop">>, "[theorem]", <<"Proposition">>)} :
          Preamble = <<d, TrailingBracket>>
    /\ ScannerTable = ("prop" :> "Proposition")
    /\ combined_env_map["prop"] = "Proposition"

(***************************************************************************)
(* C15: when the preamble is empty, and when it holds no theorem           *)
(* declaration, the scanner returns the empty mapping, main goes on to the *)
(* translation, and the merged map is the default table.                   *)
(***************************************************************************)
C15_NoDeclarationEmptyMapping ==
    /\ (Scanned /\ \A i \in DOMAIN Preamble : Preamble[i].kind # "newtheorem") =>
          /\ ScannerTable = <<>>
          /\ combined_env_map = DEFAULT_LATEX_ENV_TO_LEAN_KEYWORD
    /\ (pc = "preamble" /\ \A i \in DOMAIN Preamble : Preamble[i].kind # "newtheorem") =>
          /\ extract_newtheorem_mappings(Preamble) = <<>>
          /\ ENABLED ProcessPreamble

\* A preamble of \newcommand{\R}{\mathbb{R}} alone left the default table as the map.
C15_Witness ==
    /\ pc = "translate"
    /\ Preamble = <<NewCommand(<<"\\R">>, <<"\\mathbb{R}">>)>>
    /\ ScannerTable = <<>>
    /\ combined_env_map = DEFAULT_LATEX_ENV_TO_LEAN_KEYWORD

\* The empty preamble left the default table as the map.
C15_WitnessEmpty ==
    /\ pc = "translate"
    /\ Preamble = <<>>
    /\ ScannerTable = <<>>
    /\ combined_env_map = DEFAULT_LATEX_ENV_TO_LEAN_KEYWORD

(***************************************************************************)
(* C16: the dictionaries of translation_maps.py are never changed: in      *)
(* every state of every run, with any overrides from the preamble merged   *)
(* into the environment map, SYMBOL_MAP, the font maps, SUBSCRIPT_MAP and  *)
(* DEFAULT_LATEX_ENV_TO_LEAN_KEYWORD hold exactly their initial entries;   *)
(* the overrides are in the merged map only.                               *)
(***************************************************************************)
C16_StaticTablesNeverMutated ==
    /\ static_tables = StaticTables
    /\ DOMAIN static_tables.DEFAULT_LATEX_ENV_TO_LEAN_KEYWORD =
          {"theorem", "proposition", "lemma", "corollary", "definition", "example", "remark"}
    /\ static_tables.DEFAULT_LATEX_ENV_TO_LEAN_KEYWORD["proposition"] = "theorem"

\* A run that merged proposition -> Prop and prop -> Proposition wrote its
\* output, and the default table still says proposition -> theorem and has no prop.
C16_Witness ==
    /\ Done
    /\ combined_env_map["proposition"] = "Prop"
    /\ "prop" \in DOMAIN combined_env_map
    /\ combined_env_map["prop"] = "Proposition"
    /\ static_tables.DEFAULT_LATEX_ENV_TO_LEAN_KEYWORD["proposition"] = "theorem"
    /\ "prop" \notin DOMAIN static_tables.DEFAULT_LATEX_ENV_TO_LEAN_KEYWORD

(***************************************************************************)
(* C17: the parse step ends with a value in every case.  The empty string  *)
(* gives the empty node list, not None, and LatexWalker is not run; a      *)
(* parse error and any other exception of the parser give None; a          *)
(* successful parse gives the parser's node list.                          *)
(***************************************************************************)
C17_ParseReportsValues ==
    [][pc = "parse" =>
          /\ pc' \in {"subst", "exit1"}
          /\ nodelist' \in {None, Some(tex_source.ast)}
          /\ tex_source.text = <<>> =>
                nodelist' = Some(<<>>) /\ nodelist' # None /\ ~parser_invoked' /\ pc' = "subst"
          /\ (tex_source.text # <<>> /\ tex_source.parse \in {"error", "exception"}) =>
                nodelist' = None /\ parser_invoked'
          /\ (tex_source.text # <<>> /\ tex_source.parse = "ok") =>
                nodelist' = Some(tex_source.ast) /\ parser_invoked' /\ pc' = "subst"
      ]_vars

\* The empty file was parsed to the empty node list without LatexWalker.
C17_Witness ==
    /\ pc = "subst"
    /\ tex_source.text = <<>>
    /\ nodelist = Some(<<>>)
    /\ ~parser_invoked

\* A file the parser raised on, with an exception that is no parse error, gave None.
C17_WitnessException ==
    /\ pc = "exit1"
    /\ tex_source.parse = "exception"
    /\ parser_invoked
    /\ nodelist = None

(***************************************************************************)
(* The stages of main.                                                     *)
(***************************************************************************)
\* The stage that follows each stage when it succeeds.
NextStage ==
    [ read |-> "parse", parse |-> "subst", subst |-> "extract", extract |-> "preamble",
      preamble |-> "translate", translate |-> "write", write |-> "done" ]

(***************************************************************************)
(* C18: the stages run in the order parse, command substitution, body      *)
(* extraction, preamble scan, translation, write: every step leads to the  *)
(* next stage or to exit status 1, and nothing follows the end of a run.   *)
(* A failed parse, a failed body extraction and a failed translation lead  *)
(* to exit status 1; after a failed parse the engine is not invoked.  The  *)
(* output file is written only by the write stage of a run whose parse,    *)
(* substitution, extraction and translation gave a value, and holds the    *)
(* translation; a run that exits with status 1 has written nothing.        *)
(***************************************************************************)
C18_StageOrder ==
    [][/\ pc \in DOMAIN NextStage
       /\ pc' \in {NextStage[pc], "exit1"}
       /\ (pc = "parse" /\ nodelist' = None) => pc' = "exit1"
       /\ (pc = "extract" /\ body_nodelist' = None) => pc' = "exit1"
       /\ (pc = "write" /\ translated = None) => pc' = "exit1"
       /\ pc = "translate" => (nodelist # None /\ body_nodelist # None /\ combined_env_map # <<>>)
       /\ nodelist' = None => (translated' = None /\ pc' # "translate")
       /\ output_file' # output_file =>
             /\ pc = "write" /\ pc' = "done"
             /\ nodelist # None /\ body_nodelist # None /\ translated # None
             /\ output_file' = translated
       /\ pc' = "exit1" => output_file' = None
       /\ pc' = "done" => output_file' # None
      ]_vars

\* A run whose parse failed exited with status 1: no translation, no file.
C18_Witness ==
    /\ pc = "exit1"
    /\ parser_invoked
    /\ nodelist = None
    /\ translated = None
    /\ output_file = None

\* A run whose stages all succeeded wrote the translation.
C18_WitnessWritten ==
    /\ pc = "done"
    /\ nodelist # None /\ body_nodelist # None /\ translated # None
    /\ output_file = translated

(***************************************************************************)
(* C19: a subscript or superscript whose argument is an empty group comes  *)
(* out as the base with the empty string after it, and one whose argument  *)
(* is absent (no slot, or an empty slot) comes out as the base with        *)
(* nothing after it, no _ or ^ either; the run gives an output string in   *)
(* both cases.                                                             *)
(***************************************************************************)
C19_EmptyAndAbsentArgument ==
    \A marker \in {"_", "^"} :
        (pc \in {"write", "done"} /\ IsScriptDoc(Body, marker)) =>
            LET base == ScriptBase(Body)
                node == ScriptNode(Body)
            IN  /\ (HasArg(node, 1) /\ node.argnlist[1] = Grp(<<>>)) =>
                      /\ translated # None
                      /\ translated[1] = base \o <<>>
                      /\ ~Contains(translated[1], <<marker>>)
                /\ ~HasArg(node, 1) =>
                      /\ translated # None
                      /\ translated[1] = base
                      /\ ~Contains(translated[1], <<marker>>)
                /\ pc = "done" => output_file = translated

\* x_{} was written as x.
C19_Witness ==
    /\ Done
    /\ Body = <<Inline(<<Chr(<<"x">>), LatexSpecialsNode("_", <<Grp(<<>>)>>)>>)>>
    /\ Out = <<"x">>

\* x^ with no argument was written as x.
C19_WitnessAbsent ==
    /\ Done
    /\ IsScriptDoc(Body, "^") /\ ScriptNode(Body).argnlist = <<>>
    /\ Out = <<"x">>

(***************************************************************************)
(* Font commands: $\mathbb{arg}$, $\mathcal{arg}$, $\mathbf{arg}$.          *)
(***************************************************************************)
IsFontDoc(b) ==
    /\ Len(b) = 1 /\ b[1].type = "math" /\ Len(b[1].nodelist) = 1
    /\ b[1].nodelist[1].type = "macro"
    /\ b[1].nodelist[1].name \in {"mathbb", "mathcal", "mathbf"}
    /\ HasArg(b[1].nodelist[1], 1)
    /\ IsFlat(b[1].nodelist[1].argnlist[1])
FontNode(b) == b[1].nodelist[1]

\* The glyphs of the font tables.
FontGlyphs ==
    {BLACKBOARD_BOLD_MAP[c] : c \in DOMAIN BLACKBOARD_BOLD_MAP}
    \cup {SCRIPT_MAP[c] : c \in DOMAIN SCRIPT_MAP}

\* The letters a font command is applied to.
FontLetters ==
    {"a", "k", "v", "x"} \cup DOMAIN BLACKBOARD_BOLD_MAP \cup DOMAIN SCRIPT_MAP

(***************************************************************************)
(* C20: a font command (\mathbb, \mathcal, \mathbf) with a single letter   *)
(* as its argument comes out as the glyph of that letter in the command's  *)
(* font table; with an argument of several characters it comes out as the  *)
(* translated argument after a textual marker, with no font glyph in it.   *)
(***************************************************************************)
C20_FontCommands ==
    (Done /\ IsFontDoc(Body)) =>
        LET table == FONT_MAPS[FontNode(Body).name]
            arg == FlatChars(FontNode(Body).argnlist[1])
        IN  /\ (Len(arg) = 1 /\ arg[1] \in FontLetters) =>
                  /\ arg[1] \in DOMAIN table
                  /\ Out = <<table[arg[1]]>>
            /\ Len(arg) > 1 =>
                  /\ EndsWith(Out, arg)
                  /\ Len(Out) > Len(arg)
                  /\ \A i \in 1..Len(Out) : Out[i] \notin FontGlyphs

(***************************************************************************)
(* Top-level nodes one by one.                                             *)
(***************************************************************************)
\* translate of top-level node i alone, under the map of the run.
Alone(i) == latex_to_lean_symbols(combined_env_map, <<Body[i]>>)

RECURSIVE ConcatAlone(_)
\* The outputs of nodes 1..n alone, one after the other.
ConcatAlone(n) == IF n = 0 THEN <<>> ELSE ConcatAlone(n - 1) \o Alone(n)[1]

(***************************************************************************)
(* C22: the output of translate for the top-level nodes of a body is the   *)
(* outputs of translating each node alone, under the same environment map, *)
(* one after the other in the order of the nodes; a comment node gives     *)
(* the empty string; the run fails exactly when one of the nodes alone     *)
(* fails.                                                                  *)
(***************************************************************************)
C22_ConcatenationOfNodes ==
    (pc \in {"write", "done"}) =>
        /\ translated = None <=> \E i \in 1..Len(Body) : Alone(i) = None
        /\ translated # None => translated[1] = ConcatAlone(Len(Body))
        /\ \A i \in 1..Len(Body) : Body[i].type = "comment" => Alone(i) = Some(<<>>)
        /\ pc = "done" => Out = ConcatAlone(Len(Body))

\* \Spec and a theorem environment came out as Spec and then the framed theorem.
C22_Witness ==
    /\ Done
    /\ Len(Body) = 2
    /\ Body[1] = Mac("Spec") /\ Body[2].type = "environment"
    /\ Alone(1) = Some(<<"S", "p", "e", "c">>)
    /\ Out = <<"S", "p", "e", "c">> \o Alone(2)[1]

\* A comment between nothing and text came out as the text alone.
C22_WitnessComment ==
    /\ Done
    /\ Body = <<LatexCommentNode(<<"c">>), Chr(<<"a">>)>>
    /\ Out = <<"a">>

(***************************************************************************)
(* C23: the merged environment map has the keys of the default table and   *)
(* the keys of the scanner's table and no other; a default entry whose     *)
(* name the scanner did not define keeps its default keyword, and a name   *)
(* of the scanner alone has the scanner's value (prop -> Proposition from  *)
(* the scanner leaves proposition -> theorem in place).                    *)
(***************************************************************************)
C23_MergeOnlyAddsOrOverrides ==
    Scanned =>
        /\ DOMAIN combined_env_map =
              DOMAIN DEFAULT_LATEX_ENV_TO_LEAN_KEYWORD \cup DOMAIN ScannerTable
        /\ \A k \in DOMAIN DEFAULT_LATEX_ENV_TO_LEAN_KEYWORD \ DOMAIN ScannerTable :
              combined_env_map[k] = DEFAULT_LATEX_ENV_TO_LEAN_KEYWORD[k]
        /\ \A k \in DOMAIN ScannerTable \ DOMAIN DEFAULT_LATEX_ENV_TO_LEAN_KEYWORD :
              combined_env_map[k] = ScannerTable[k]
        /\ ScannerTable = ("prop" :> "Proposition") =>
              combined_env_map["proposition"] = "theorem"

\* The scanner gave prop -> Proposition alone; the map has it, and proposition -> theorem.
C23_Witness ==
    /\ pc = "translate"
    /\ ScannerTable = ("prop" :> "Proposition")
    /\ combined_env_map["prop"] = "Proposition"
    /\ combined_env_map["proposition"] = "theorem"
    /\ DOMAIN combined_env_map = DOMAIN DEFAULT_LATEX_ENV_TO_LEAN_KEYWORD \cup {"prop"}

\* A brace argument that holds whitespace alone, or nothing.
Blank(pieces) == \A i \in DOMAIN pieces : pieces[i] = " "

\* The pieces from the first word to the last one.
Trimmed(pieces) ==
    LET words == {i \in DOMAIN pieces : pieces[i] # " "}
    IN  IF words = {} THEN <<>>
        ELSE SubSeq(pieces, CHOOSE i \in words : \A j \in words : i <= j,
                            CHOOSE i \in words : \A j \in words : j <= i)

\* The preamble without the declarations that have a blank name.
WithoutBlankDeclarations(preamble) ==
    SelectSeq(preamble,
              LAMBDA d : ~(d.kind = "newtheorem" /\ (Blank(d.env_name) \/ Blank(d.printed))))

(***************************************************************************)
(* C25: every key and every value of the table extract_newtheorem_mappings *)
(* returns is a non-empty string that begins and ends with a word, the     *)
(* argument of some declaration from its first word to its last one        *)
(* ({ defn } is stored as defn); a declaration whose environment name or   *)
(* printed name is blank adds no entry and changes none: the table is the  *)
(* table of the preamble without these declarations.                       *)
(***************************************************************************)
C25_NamesAreStripped ==
    /\ \A k \in DOMAIN ScannerTable :
          /\ k # ""
          /\ ScannerTable[k] # ""
          /\ \E i \in DOMAIN Preamble :
                /\ Preamble[i].kind = "newtheorem"
                /\ ~Blank(Preamble[i].env_name)
                /\ ~Blank(Preamble[i].printed)
                /\ k = Join(Trimmed(Preamble[i].env_name))
                /\ ScannerTable[k] = Join(Trimmed(Preamble[i].printed))
    /\ ScannerTable = extract_newtheorem_mappings(WithoutBlankDeclarations(Preamble))

\* { defn } is stored as defn, and the declaration with a blank name after it adds nothing.
C25_Witness ==
    /\ pc = "translate"
    /\ Preamble = <<NewTheorem(FALSE, <<" ", "defn", " ">>, "", <<"Definition">>),
                    NewTheorem(FALSE, <<" ">>, "", <<"Axiom">>)>>
    /\ ScannerTable = ("defn" :> "Definition")
    /\ combined_env_map["defn"] = "Definition"

\* A blank printed name after a declaration of the same environment leaves the entry.
C25_WitnessBlankPrinted ==
    /\ pc = "translate"
    /\ Preamble = <<NewTheorem(FALSE, <<"prop">>, "", <<" ", "Printed", " ", "Name", " ">>),
                    NewTheorem(FALSE, <<"prop">>, "", <<" ">>)>>
    /\ ScannerTable = ("prop" :> "Printed Name")

\* The positions of the top-level environment nodes named document.
DocumentPositions(top_level_nodelist) ==
    {i \in DOMAIN top_level_nodelist :
        /\ top_level_nodelist[i].type = "environment"
        /\ top_level_nodelist[i].name = "document"}

\* The body of the document environment at the least position, if it is a list.
FirstDocumentBody(top_level_nodelist) ==
    LET positions == DocumentPositions(top_level_nodelist)
        first == CHOOSE i \in positions : \A j \in positions : i <= j
    IN  IF positions = {} THEN None
        ELSE IF top_level_nodelist[first].nodelist = NotAList THEN None
        ELSE Some(top_level_nodelist[first].nodelist)

(***************************************************************************)
(* C26: the step that extracts the body returns the body node list of the  *)
(* first top-level environment node named document, whatever follows it    *)
(* and whatever None entries and other nodes precede it; it returns None   *)
(* (and the run exits with status 1) when no top-level node is a document  *)
(* environment or when the body of the first one is no list; the node list *)
(* it was given is the same after the call.                                *)
(***************************************************************************)
C26_FirstDocumentBody ==
    [][pc = "extract" =>
          /\ nodelist' = nodelist
          /\ body_nodelist' = FirstDocumentBody(nodelist[1])
          /\ DocumentPositions(nodelist[1]) = {} => body_nodelist' = None
          /\ pc' = IF body_nodelist' = None THEN "exit1" ELSE "preamble"]_vars

\* Two document environments after a None entry: the body of the first is returned.
C26_Witness ==
    /\ pc = "preamble"
    /\ nodelist = Some(<<NoneNode, DocumentEnv(<<Chr(<<"a">>)>>), DocumentEnv(<<Chr(<<"b">>)>>)>>)
    /\ body_nodelist = Some(<<Chr(<<"a">>)>>)

\* The first document environment has no list for a body: None, though a second one has.
C26_WitnessNotAList ==
    /\ pc = "exit1"
    /\ nodelist = Some(<<DocumentEnv(NotAList), DocumentEnv(<<Chr(<<"a">>)>>)>>)
    /\ body_nodelist = None

\* The positions of the text where a \begin{document} stands, in either case.
BeginPositions(text) ==
    {i \in DOMAIN text : text[i] \in {BeginDocument, BeginDocumentUpper}}

\* The text before the first of these positions.
BeforeFirstBegin(text) ==
    LET begins == BeginPositions(text)
    IN  SubSeq(text, 1, (CHOOSE i \in begins : \A j \in begins : i <= j) - 1)

(***************************************************************************)
(* C27: the preamble handed to the scanner is the source text before the   *)
(* first \begin{document}, in upper or lower case; the environment map of   *)
(* the run is the default table merged with the declarations of that part  *)
(* alone, so that a declaration after that point is in the map only if it  *)
(* also stands before it; a source with no \begin{document} has the empty   *)
(* preamble, _split_preamble_and_body returns ("", whole source), and the  *)
(* map is the default table.                                               *)
(***************************************************************************)
C27_PreambleIsTextBeforeBegin ==
    LET text == tex_source.text
        split == _split_preamble_and_body(text)
    IN  IF BeginPositions(text) = {}
        THEN /\ split = <<<<>>, text>>
             /\ Scanned => combined_env_map = DEFAULT_LATEX_ENV_TO_LEAN_KEYWORD
        ELSE /\ split[1] = BeforeFirstBegin(text)
             /\ Scanned =>
                   /\ combined_env_map =
                         Update(DEFAULT_LATEX_ENV_TO_LEAN_KEYWORD,
                                extract_newtheorem_mappings(BeforeFirstBegin(text)))
                   /\ \A name \in DOMAIN combined_env_map :
                         (\/ name \notin DOMAIN DEFAULT_LATEX_ENV_TO_LEAN_KEYWORD
                          \/ combined_env_map[name] # DEFAULT_LATEX_ENV_TO_LEAN_KEYWORD[name]) =>
                             \E i \in DOMAIN BeforeFirstBegin(text) : Declares(text, i, name)

\* A declaration of proposition after an upper-case \begin{document} and before
\* the one the parser reads: the preamble ends at the first, proposition keeps its keyword.
C27_Witness ==
    /\ Done
    /\ tex_source.text = <<BeginDocumentUpper,
                           NewTheorem(FALSE, <<"proposition">>, "", <<"Prop">>),
                           BeginDocument>>
    /\ Preamble = <<>>
    /\ combined_env_map = DEFAULT_LATEX_ENV_TO_LEAN_KEYWORD

\* A declaration before \begin{document} and one after it: the first alone is in the map.
C27_WitnessAfterBegin ==
    /\ Done
    /\ tex_source.text = <<NewTheorem(FALSE, <<"prop">>, "", <<"Proposition">>),
                           BeginDocument,
                           NewTheorem(FALSE, <<"proposition">>, "", <<"Prop">>)>>
    /\ _split_preamble_and_body(tex_source.text) =
          <<<<NewTheorem(FALSE, <<"prop">>, "", <<"Proposition">>)>>,
            <<NewTheorem(FALSE, <<"proposition">>, "", <<"Prop">>)>>>>
    /\ combined_env_map["prop"] = "Proposition"
    /\ combined_env_map["proposition"] = "theorem"

\* No \begin{document} the pattern matches: the empty preamble and the default table.
C27_WitnessNoBegin ==
    /\ Done
    /\ tex_source.text = <<NewTheorem(FALSE, <<"proposition">>, "", <<"Prop">>),
                           BeginDocumentSpaced>>
    /\ _split_preamble_and_body(tex_source.text) = <<<<>>, tex_source.text>>
    /\ combined_env_map = DEFAULT_LATEX_ENV_TO_LEAN_KEYWORD

\* STEP 4 is over and the scan assigned no table: it raised.
RaisedScan == Scanned /\ custom_newtheorem_map = None

(***************************************************************************)
(* C24: when extract_newtheorem_mappings raises, the run is not ended at   *)
(* STEP 4: it goes on to the translation with an environment map equal to  *)
(* the default table, the translation is the one the default table gives,  *)
(* and when it succeeds the output can still be written and, once written, *)
(* is that translation.                                                    *)
(***************************************************************************)
C24_ScanFailureDoesNotAbort ==
    /\ [][(pc = "preamble" /\ custom_newtheorem_map' = None) =>
              /\ pc' = "translate"
              /\ combined_env_map' = DEFAULT_LATEX_ENV_TO_LEAN_KEYWORD]_vars
    /\ [](RaisedScan =>
              /\ combined_env_map = DEFAULT_LATEX_ENV_TO_LEAN_KEYWORD
              /\ pc \in {"translate", "write", "done", "exit1"}
              /\ pc \in {"write", "done"} =>
                    translated = latex_to_lean_symbols(DEFAULT_LATEX_ENV_TO_LEAN_KEYWORD, Body)
              /\ (pc = "write" /\ translated # None) => ENABLED (WriteOutput /\ pc' = "done")
              /\ pc = "done" => translated # None /\ output_file = translated)

\* The preamble declares proposition -> Prop, the scan raised, and the output
\* was written with the default keyword of proposition.
C24_Witness ==
    /\ Done
    /\ RaisedScan
    /\ tex_source.text = <<NewTheorem(FALSE, <<"proposition">>, "", <<"Prop">>), BeginDocument>>
    /\ tex_source.ast = PropositionDocument
    /\ ScannerTable = ("proposition" :> "Prop")
    /\ combined_env_map["proposition"] = "theorem"
    /\ output_file = latex_to_lean_symbols(DEFAULT_LATEX_ENV_TO_LEAN_KEYWORD, Body)
    /\ output_file # latex_to_lean_symbols(
                          Update(DEFAULT_LATEX_ENV_TO_LEAN_KEYWORD, ScannerTable), Body)

\* What a run over the file translates when it is the only run of the process,
\* for a file it parses and finds a document in.
TranslatedAlone(tex) ==
    LET full_nodelist == parse_latex_to_ast_v210(tex)[1]
        body == extract_document_body_nodelist(full_nodelist)[1]
        preamble == _split_preamble_and_body(tex.text)[1]
        env_map == CombinedEnvMap(DEFAULT_LATEX_ENV_TO_LEAN_KEYWORD,
                                  extract_newtheorem_mappings(preamble))
    IN  latex_to_lean_symbols(env_map, body)

\* The run with these local variables has what the same run has alone.
AsAlone(run) ==
    /\ run.pc \in {"translate", "write", "done"} =>
          run.combined_env_map =
              CombinedEnvMap(DEFAULT_LATEX_ENV_TO_LEAN_KEYWORD,
                             extract_newtheorem_mappings(
                                 _split_preamble_and_body(run.tex_source.text)[1]))
    /\ run.pc \in {"write", "done"} => run.translated = TranslatedAlone(run.tex_source)
    /\ run.pc = "done" => run.output_file = TranslatedAlone(run.tex_source)
    /\ run.pc # "done" => run.output_file = None

(***************************************************************************)
(* C21: two runs over different files, their steps interleaved in any      *)
(* order: each run has the environment map, the translation and the output *)
(* that the same run has when it is alone in the process, and the tables   *)
(* both read are never written.                                            *)
(***************************************************************************)
C21_RunsAreIndependent ==
    /\ AsAlone(other_run)
    /\ AsAlone([pc |-> pc, tex_source |-> tex_source, combined_env_map |-> combined_env_map,
                translated |-> translated, output_file |-> output_file])
    /\ static_tables = StaticTables

\* Both runs wrote their output: the one whose preamble declares proposition
\* anew wrote Prop, the other one, of the same body and no declaration, theorem.
C21_Witness ==
    /\ Done
    /\ other_run.pc = "done"
    /\ tex_source = TexSource(<<BeginDocument>>, "ok", PropositionDocument)
    /\ other_run.tex_source.text =
          <<NewTheorem(FALSE, <<"proposition">>, "", <<"Prop">>), BeginDocument>>
    /\ other_run.combined_env_map["proposition"] = "Prop"
    /\ combined_env_map["proposition"] = "theorem"
    /\ output_file # other_run.output_file
    /\ output_file = TranslatedAlone(tex_source)

====
